---- MODULE Spec2Model ----
(***************************************************************************)
(* PasswordToolKit (vgbr-dev/password-toolkit 2.0.0): the constructor, the *)
(* option checker, the password generator and the strength classifier,     *)
(* with the JavaScript value semantics their conditions depend on.         *)
(***************************************************************************)
EXTENDS Integers, Sequences, FiniteSets, TLC

VARIABLES inst, lastIndex, call, memo, todo, built

vars == <<inst, lastIndex, call, memo, todo, built>>

(***************************************************************************)
(* JavaScript values.  A number is kept in halves (h = 2 * value) so that  *)
(* a fraction such as 2.5 is a value; NaN is a number of kind "nan".  A    *)
(* string is either a sequence of one-character strings (field s), when    *)
(* the code looks at its characters, or an opaque text (field text).  An   *)
(* object is a function from its own property names to values.             *)
(***************************************************************************)
Undefined == [t |-> "undefined"]

Null == [t |-> "null"]

Bool(b) == [t |-> "boolean", b |-> b]

Num(h) == [t |-> "number", k |-> "fin", h |-> h]

Integer(n) == Num(2 * n)

NaN == [t |-> "number", k |-> "nan", h |-> 0]

Str(s) == [t |-> "string", s |-> s]

Text(x) == [t |-> "string", text |-> x]

Obj(f) == [t |-> "object", f |-> f]

Arr(e) == [t |-> "array", e |-> e]

\* An index of an array below its length that holds no element (as every
\* index of new Array(7), or index 1 of ['a', , 'c']).
Hole == [t |-> "hole"]

\* typeof v
TypeOf(v) ==
    CASE v.t = "undefined" -> "undefined"
      [] v.t = "null" -> "object"
      [] v.t = "boolean" -> "boolean"
      [] v.t = "number" -> "number"
      [] v.t = "string" -> "string"
      [] v.t = "object" -> "object"
      [] v.t = "array" -> "object"

\* Whether Reflect.has(v, p) throws: its target must be an object.
ReflectHasThrows(v) == v.t \notin {"object", "array"}

\* Reflect.has(v, p) for an object or an array v and a property name p that
\* no prototype defines (size, numbers, maximum, ...).
ReflectHas(v, p) == v.t = "object" /\ p \in DOMAIN v.f

\* v.p for an object or an array v: undefined when the property is absent.
Get(v, p) == IF ReflectHas(v, p) THEN v.f[p] ELSE Undefined

\* Array.isArray(v)
IsArray(v) == v.t = "array"

\* ToBoolean(v)
Truthy(v) ==
    CASE v.t = "undefined" -> FALSE
      [] v.t = "null" -> FALSE
      [] v.t = "boolean" -> v.b
      [] v.t = "number" -> v.k = "fin" /\ v.h # 0
      [] v.t = "string" -> IF "s" \in DOMAIN v THEN v.s # <<>> ELSE v.text # ""
      [] v.t = "object" -> TRUE
      [] v.t = "array" -> TRUE

\* a || b
Or(a, b) == IF Truthy(a) THEN a ELSE b

Digits == <<"0", "1", "2", "3", "4", "5", "6", "7", "8", "9">>

\* The value of a decimal digit character.
DigitValue(c) == (CHOOSE i \in 1..Len(Digits) : Digits[i] = c) - 1

IsDecimalDigit(c) == \E i \in 1..Len(Digits) : Digits[i] = c

\* StrWhiteSpaceChar: the characters ToNumber trims (those the model uses).
WhiteSpace == {" ", "\t", "\n", "\r"}

RECURSIVE TrimStart(_)
TrimStart(s) ==
    IF s # <<>> /\ Head(s) \in WhiteSpace THEN TrimStart(Tail(s)) ELSE s

RECURSIVE TrimEnd(_)
TrimEnd(s) ==
    IF s # <<>> /\ s[Len(s)] \in WhiteSpace
    THEN TrimEnd(SubSeq(s, 1, Len(s) - 1))
    ELSE s

RECURSIVE DecimalValue(_)
DecimalValue(s) ==
    IF s = <<>> THEN 0
    ELSE 10 * DecimalValue(SubSeq(s, 1, Len(s) - 1)) + DigitValue(s[Len(s)])

\* StringToNumber for a string without sign, point, exponent or radix
\* prefix: blank is 0, decimal digits are their value, anything else NaN.
StringToNumber(s) ==
    LET body == TrimEnd(TrimStart(s))
    IN  IF \A i \in 1..Len(body) : IsDecimalDigit(body[i])
        THEN Integer(DecimalValue(body))
        ELSE NaN

\* ToNumber(v) for a primitive v.
ToNumber(v) ==
    CASE v.t = "undefined" -> NaN
      [] v.t = "null" -> Integer(0)
      [] v.t = "boolean" -> IF v.b THEN Integer(1) ELSE Integer(0)
      [] v.t = "number" -> v
      [] v.t = "string" -> StringToNumber(v.s)

\* a < b when b is a number: both sides go through ToNumber, and a
\* comparison with NaN is false.
LessThan(a, b) ==
    LET x == ToNumber(a)
        y == ToNumber(b)
    IN  x.k = "fin" /\ y.k = "fin" /\ x.h < y.h

\* a > b is b < a.
GreaterThan(a, b) == LessThan(b, a)

(***************************************************************************)
(* Outcomes of a call: a returned value or a thrown error.                 *)
(***************************************************************************)
Return(v) == [kind |-> "return", value |-> v]

Throw(e, m) == [kind |-> "throw", error |-> e, message |-> m]

\* The engine's TypeError for Reflect.has on a target that is no object.
NonObjectTarget == Throw("TypeError", "Reflect.has called on non-object")

(***************************************************************************)
(* Defaults.                                                               *)
(***************************************************************************)
suggestions ==
    Arr(<< Text("The password must have at least 8 characters."),
           Text("Add uppercase and lowercase letters to make the password more secure."),
           Text("Add numbers to make the password more secure."),
           Text("Add symbols to make the password more secure."),
           Text("Avoid using repeated characters in the password."),
           Text("Avoid using common password patterns."),
           Text("Excellent! The password is secure.") >>)

qualities ==
    Arr(<< Text("insecure"), Text("low"), Text("medium"), Text("high"),
           Text("perfect") >>)

DefaultMaximum == 30

SuggestionsLength == 7

QualitiesLength == 5

\* A variant of HasLength: an array that is too short passes.
HasLengthAtMost(array, n) == Len(array.e) <= n

\* array.length === n
HasLength(array, n) == Len(array.e) = n

\* everyString(target): every element of the array is of type string.
\* Array.prototype.every calls its callback for the indices that hold an
\* element only: it passes over a hole.
everyString(target) ==
    \A i \in 1..Len(target.e) :
        target.e[i] # Hole => TypeOf(target.e[i]) = "string"

(***************************************************************************)
(* new PasswordToolKit(settings): the instance, or the error thrown.       *)
(***************************************************************************)
\* A variant of defineProperties: the defaults only when settings has no
\* field at all, else the three fields as they were passed.
definePropertiesAllOrNothing(settings) ==
    IF settings.t = "array" \/ DOMAIN settings.f = {}
    THEN [suggestions |-> suggestions, qualities |-> qualities,
          maximum |-> Integer(DefaultMaximum)]
    ELSE [suggestions |-> Get(settings, "suggestions"),
          qualities |-> Get(settings, "qualities"),
          maximum |-> Get(settings, "maximum")]

\* Object.defineProperties(this, ...): the three properties of the
\* instance, each the value passed or, when that is falsy, its default.
defineProperties(settings) ==
    [suggestions |-> Or(Get(settings, "suggestions"), suggestions),
     qualities |-> Or(Get(settings, "qualities"), qualities),
     maximum |-> Or(Get(settings, "maximum"), Integer(DefaultMaximum))]

constructor(arg) ==
    LET settings == IF arg = Undefined THEN Obj(<<>>) ELSE arg
        has(p) == ReflectHas(settings, p)
    IN  IF TypeOf(settings) # "object"
        THEN Throw("TypeError", "The \"options\" must be an object.")
        ELSE IF ReflectHasThrows(settings)
        THEN NonObjectTarget
        ELSE IF has("suggestions") /\ ~IsArray(Get(settings, "suggestions"))
        THEN Throw("TypeError", "The \"suggestions\" value must be an array type.")
        ELSE IF has("qualities") /\ ~IsArray(Get(settings, "qualities"))
        THEN Throw("TypeError", "The \"qualities\" value must be an array type.")
        ELSE IF has("maximum") /\ TypeOf(Get(settings, "maximum")) # "number"
        THEN Throw("TypeError", "The \"maximum\" value must be a number type.")
        ELSE IF has("suggestions") /\ ~everyString(Get(settings, "suggestions"))
        THEN Throw("TypeError", "All \"suggestions\" values must be a string type.")
        ELSE IF has("qualities") /\ ~everyString(Get(settings, "qualities"))
        THEN Throw("TypeError", "All \"qualities\" values must be a string type.")
        ELSE IF has("suggestions")
                /\ ~HasLength(Get(settings, "suggestions"), SuggestionsLength)
        THEN Throw("RangeError", "The \"suggestions\" elements number must be equal to 7.")
        ELSE IF has("qualities")
                /\ ~HasLength(Get(settings, "qualities"), QualitiesLength)
        THEN Throw("RangeError", "The \"qualities\" elements number must be equal to 5.")
        ELSE Return(defineProperties(settings))

(***************************************************************************)
(* checkOptions(options) on the instance this.                             *)
(***************************************************************************)
Validation(ok, reason) == Return([ok |-> ok, reason |-> reason])

Rejected(reason) == Validation(FALSE, Text(reason))

\* A variant of NotBoolean: a truthy value passes for a boolean.
NotBooleanUnlessTruthy(options, flag) ==
    /\ ReflectHas(options, flag)
    /\ TypeOf(Get(options, flag)) # "boolean"
    /\ ~Truthy(Get(options, flag))

\* A present flag whose value is not of type boolean.
NotBoolean(options, flag) ==
    ReflectHas(options, flag) /\ TypeOf(Get(options, flag)) # "boolean"

\* A variant of checkOptions: the flags are checked before the size.
checkOptionsFlagsFirst(this, options) ==
    IF TypeOf(options) # "object"
    THEN Rejected("Options must be an object.")
    ELSE IF ReflectHasThrows(options)
    THEN NonObjectTarget
    ELSE IF NotBoolean(options, "numbers")
    THEN Rejected("The \"numbers\" option must be a boolean.")
    ELSE IF NotBoolean(options, "symbols")
    THEN Rejected("The \"symbols\" option must be a boolean.")
    ELSE IF NotBoolean(options, "uppercases")
    THEN Rejected("The \"uppercases\" option must be a boolean.")
    ELSE IF NotBoolean(options, "lowercases")
    THEN Rejected("The \"lowercases\" option must be a boolean.")
    ELSE IF ~ReflectHas(options, "size")
    THEN Rejected("The \"size\" property is required.")
    ELSE IF LessThan(Get(options, "size"), Integer(1))
    THEN Rejected("The password length must be greater than 1.")
    ELSE IF GreaterThan(Get(options, "size"), this.maximum)
    THEN Rejected("The password length must be less than specified maximum.")
    ELSE IF ~Truthy(Get(options, "numbers")) /\ ~Truthy(Get(options, "symbols"))
            /\ ~Truthy(Get(options, "uppercases"))
            /\ ~Truthy(Get(options, "lowercases"))
    THEN Rejected("You must select at least one option to generate the password.")
    ELSE Validation(TRUE, Null)

checkOptions(this, options) ==
    IF TypeOf(options) # "object"
    THEN Rejected("Options must be an object.")
    ELSE IF ReflectHasThrows(options)
    THEN NonObjectTarget
    ELSE IF ~ReflectHas(options, "size")
    THEN Rejected("The \"size\" property is required.")
    ELSE IF LessThan(Get(options, "size"), Integer(1))
    THEN Rejected("The password length must be greater than 1.")
    ELSE IF GreaterThan(Get(options, "size"), this.maximum)
    THEN Rejected("The password length must be less than specified maximum.")
    ELSE IF NotBoolean(options, "numbers")
    THEN Rejected("The \"numbers\" option must be a boolean.")
    ELSE IF NotBoolean(options, "symbols")
    THEN Rejected("The \"symbols\" option must be a boolean.")
    ELSE IF NotBoolean(options, "uppercases")
    THEN Rejected("The \"uppercases\" option must be a boolean.")
    ELSE IF NotBoolean(options, "lowercases")
    THEN Rejected("The \"lowercases\" option must be a boolean.")
    ELSE IF ~Truthy(Get(options, "numbers")) /\ ~Truthy(Get(options, "symbols"))
            /\ ~Truthy(Get(options, "uppercases"))
            /\ ~Truthy(Get(options, "lowercases"))
    THEN Rejected("You must select at least one option to generate the password.")
    ELSE Validation(TRUE, Null)

(***************************************************************************)
(* Characters.  A character is a one-character string; CharCode is its     *)
(* UTF-16 code unit, which is what a regular expression's ranges compare.  *)
(* The grave accent (U+0060), which no TLA+ string can hold, is written    *)
(* "grave".                                                                *)
(***************************************************************************)
Ascii ==
    << " ", "!", "\"", "#", "$", "%", "&", "'", "(", ")", "*", "+", ",",
       "-", ".", "/", "0", "1", "2", "3", "4", "5", "6", "7", "8", "9",
       ":", ";", "<", "=", ">", "?", "@", "A", "B", "C", "D", "E", "F",
       "G", "H", "I", "J", "K", "L", "M", "N", "O", "P", "Q", "R", "S",
       "T", "U", "V", "W", "X", "Y", "Z", "[", "\\", "]", "^", "_", "grave",
       "a", "b", "c", "d", "e", "f", "g", "h", "i", "j", "k", "l", "m",
       "n", "o", "p", "q", "r", "s", "t", "u", "v", "w", "x", "y", "z",
       "{", "|", "}", "~" >>

\* The code units of the characters of the model: tab, line feed, carriage
\* return and the printable ASCII characters, which start at 32 (space).
CharCodes ==
    [c \in {"\t", "\n", "\r"} \cup {Ascii[i] : i \in 1..Len(Ascii)} |->
        CASE c = "\t" -> 9
          [] c = "\n" -> 10
          [] c = "\r" -> 13
          [] OTHER -> 31 + (CHOOSE i \in 1..Len(Ascii) : Ascii[i] = c)]

CharCode(c) == CharCodes[c]

InRange(c, lo, hi) == CharCode(lo) <= CharCode(c) /\ CharCode(c) <= CharCode(hi)

(***************************************************************************)
(* The generator's alphabets.                                              *)
(***************************************************************************)
numbers ==
    << "0", "1", "2", "3", "4", "5", "6", "7", "8", "9" >>

symbols ==
    << "!", "\"", "#", "$", "%", "&", "'", "(", ")", "*", "+", ",", "-",
       ".", "/", ":", ";", "<", "=", ">", "?", "@", "[", "\\", "]", "^",
       "_", "grave", "{", "|", "}", "~" >>

lowercases ==
    << "a", "b", "c", "d", "e", "f", "g", "h", "i", "j", "k", "l", "m",
       "n", "o", "p", "q", "r", "s", "t", "u", "v", "w", "x", "y", "z" >>

uppercases ==
    << "A", "B", "C", "D", "E", "F", "G", "H", "I", "J", "K", "L", "M",
       "N", "O", "P", "Q", "R", "S", "T", "U", "V", "W", "X", "Y", "Z" >>

\* The denominator of the random source: Math.random() yields r / RandDen
\* for a numerator r in 0 .. RandDen - 1, a value in [0, 1).
RandDen == 4

Randoms == 0..(RandDen - 1)

\* getRandomNumber(size) = Math.floor(Math.random() * size), for the value
\* r / RandDen of Math.random().
getRandomNumber(size, r) == (r * size) \div RandDen

\* getSelectedChars(options): the values of the object spread, in the order
\* the properties are written.
\* A variant of getSelectedChars: the letters before the digits and the
\* symbols.
getSelectedCharsLettersFirst(options) ==
    (IF Truthy(Get(options, "lowercases")) THEN <<lowercases>> ELSE <<>>)
    \o (IF Truthy(Get(options, "uppercases")) THEN <<uppercases>> ELSE <<>>)
    \o (IF Truthy(Get(options, "numbers")) THEN <<numbers>> ELSE <<>>)
    \o (IF Truthy(Get(options, "symbols")) THEN <<symbols>> ELSE <<>>)

getSelectedChars(options) ==
    (IF Truthy(Get(options, "numbers")) THEN <<numbers>> ELSE <<>>)
    \o (IF Truthy(Get(options, "symbols")) THEN <<symbols>> ELSE <<>>)
    \o (IF Truthy(Get(options, "uppercases")) THEN <<uppercases>> ELSE <<>>)
    \o (IF Truthy(Get(options, "lowercases")) THEN <<lowercases>> ELSE <<>>)

\* charsToArray(selected): the values split into characters and flattened.
RECURSIVE charsToArray(_)
charsToArray(selected) ==
    IF selected = <<>> THEN <<>>
    ELSE Head(selected) \o charsToArray(Tail(selected))

\* Array(size): a number is the length of the new array and must be an
\* integer in 0 .. 2^32 - 1 (n \div 2^16 < 2^16), else RangeError; any
\* other value becomes the only element of an array of length 1.  The
\* result is the length.
ArrayOf(size) ==
    IF TypeOf(size) # "number"
    THEN Return(1)
    ELSE IF size.k = "fin" /\ size.h % 2 = 0 /\ size.h >= 0
            /\ (size.h \div 2) \div (2 ^ 16) < 2 ^ 16
    THEN Return(size.h \div 2)
    ELSE Throw("RangeError", "Invalid array length")

\* The number of Math.random() calls generate(options) makes on this.
Draws(this, options) ==
    LET check == checkOptions(this, options)
    IN  IF check.kind = "throw" \/ ~check.value.ok THEN 0
        ELSE LET array == ArrayOf(Get(options, "size"))
             IN  IF array.kind = "throw" THEN 0 ELSE array.value

(***************************************************************************)
(* generate(options) on the instance this; random[i] is the numerator of   *)
(* the i-th value Math.random() yields.                                    *)
(***************************************************************************)
\* A variant of generate: an empty string, not null, for a rejected request.
generateEmptyIfRejected(this, options, random) ==
    LET check == checkOptions(this, options)
    IN  IF check.kind = "throw" THEN check
        ELSE IF ~check.value.ok THEN Return(Str(<<>>))
        ELSE LET array == ArrayOf(Get(options, "size"))
                 chars == charsToArray(getSelectedChars(options))
             IN  IF array.kind = "throw" THEN array
                 ELSE Return(Str([i \in 1..array.value |->
                          chars[getRandomNumber(Len(chars), random[i]) + 1]]))

generate(this, options, random) ==
    LET check == checkOptions(this, options)
    IN  IF check.kind = "throw" THEN check
        ELSE IF ~check.value.ok THEN Return(Null)
        ELSE LET array == ArrayOf(Get(options, "size"))
                 chars == charsToArray(getSelectedChars(options))
             IN  IF array.kind = "throw" THEN array
                 ELSE Return(Str([i \in 1..array.value |->
                          chars[getRandomNumber(Len(chars), random[i]) + 1]]))

(***************************************************************************)
(* Regular expressions.  A RegExp is its source and its flags; lastIndex   *)
(* is the state test() reads and writes when the flag g or y is set.       *)
(***************************************************************************)
RegExp(source, flags) == [source |-> source, flags |-> flags]

\* A variant of regexps: every expression with the flag g.
regexpsGlobal ==
    [numbers |-> RegExp("\\d", {"g"}),
     symbols |-> RegExp("[\\W_]", {"g"}),
     uppercases |-> RegExp("[A-Z]", {"g"}),
     lowercases |-> RegExp("[a-z]", {"g"}),
     repeated |-> RegExp("(.).*?\\1", {"g"})]

regexps ==
    [numbers |-> RegExp("\\d", {}),
     symbols |-> RegExp("[\\W_]", {}),
     uppercases |-> RegExp("[A-Z]", {}),
     lowercases |-> RegExp("[a-z]", {}),
     repeated |-> RegExp("(.).*?\\1", {})]

\* A variant of patterns: the two expressions for consecutive identical
\* characters in each other's place.
patternsIdenticalSwapped ==
    << RegExp("\\d{4}", {}),
       RegExp("\\d{6}", {}),
       RegExp("[A-Za-z]{4}", {}),
       RegExp("[A-Za-z]{6}", {}),
       RegExp("([A-Za-z\\d])\\1{3,}", {}),
       RegExp("[A-Za-z]+\\d+[A-Za-z]*", {}),
       RegExp("[A-Za-z]*\\d+[A-Za-z]+", {}),
       RegExp("([A-Za-z\\d])\\1{2,}", {}) >>

patterns ==
    << RegExp("\\d{4}", {}),
       RegExp("\\d{6}", {}),
       RegExp("[A-Za-z]{4}", {}),
       RegExp("[A-Za-z]{6}", {}),
       RegExp("([A-Za-z\\d])\\1{2,}", {}),
       RegExp("[A-Za-z]+\\d+[A-Za-z]*", {}),
       RegExp("[A-Za-z]*\\d+[A-Za-z]+", {}),
       RegExp("([A-Za-z\\d])\\1{3,}", {}) >>

RegExpSources ==
    {regexps[k].source : k \in DOMAIN regexps}
    \cup {patterns[i].source : i \in 1..Len(patterns)}

\* \d
IsDigit(c) == InRange(c, "0", "9")

\* [A-Z]
IsUpper(c) == InRange(c, "A", "Z")

\* [a-z]
IsLower(c) == InRange(c, "a", "z")

\* [A-Za-z]
IsLetter(c) == IsUpper(c) \/ IsLower(c)

\* \w is [A-Za-z0-9_]
IsWord(c) == IsLetter(c) \/ IsDigit(c) \/ c = "_"

\* A variant of IsNonWordOrUnderscore: \W alone.
IsNonWord(c) == ~IsWord(c)

\* [\W_]
IsNonWordOrUnderscore(c) == ~IsWord(c) \/ c = "_"

\* [A-Za-z\d]
IsAlphanumeric(c) == IsLetter(c) \/ IsDigit(c)

\* The line terminators, which . does not match.
LineTerminators == {"\n", "\r"}

\* .
IsDot(c) == c \notin LineTerminators

\* c is a character of the class written class.
IsOf(class, c) ==
    CASE class = "\\d" -> IsDigit(c)
      [] class = "[\\W_]" -> IsNonWordOrUnderscore(c)
      [] class = "[A-Z]" -> IsUpper(c)
      [] class = "[a-z]" -> IsLower(c)
      [] class = "[A-Za-z]" -> IsLetter(c)

\* The length of the longest run of characters of a class that starts at
\* position i of s (0 when s[i] is not of the class or i is past the end).
RunLength(class, s, i) ==
    CHOOSE n \in 0..(Len(s) + 1 - i) :
        /\ \A k \in i..(i + n - 1) : IsOf(class, s[k])
        /\ (i + n > Len(s) \/ ~IsOf(class, s[i + n]))

\* The length of the longest run of the character c that starts at i.
SameLength(c, s, i) ==
    CHOOSE n \in 0..(Len(s) + 1 - i) :
        /\ \A k \in i..(i + n - 1) : s[k] = c
        /\ (i + n > Len(s) \/ s[i + n] # c)

\* One character of a class at i: the position after it, or 0.
MatchClass(class, s, i) ==
    IF i <= Len(s) /\ IsOf(class, s[i]) THEN i + 1 ELSE 0

\* class{n} at i.
MatchRepeat(class, n, s, i) ==
    IF RunLength(class, s, i) >= n THEN i + n ELSE 0

\* (.).*?\1 at i: the lazy .*? stops at the first later occurrence of the
\* captured character that only characters matching . separate from it.
MatchRepeated(s, i) ==
    LET ends == {j \in (i + 1)..Len(s) :
                    /\ s[j] = s[i]
                    /\ \A k \in (i + 1)..(j - 1) : IsDot(s[k])}
    IN  IF i <= Len(s) /\ IsDot(s[i]) /\ ends # {}
        THEN 1 + CHOOSE j \in ends : \A e \in ends : j <= e
        ELSE 0

\* ([A-Za-z\d])\1{n,} at i: the captured character, then greedily n or
\* more copies of it.
MatchIdentical(n, s, i) ==
    IF i <= Len(s) /\ IsAlphanumeric(s[i]) /\ SameLength(s[i], s, i) >= n + 1
    THEN i + SameLength(s[i], s, i)
    ELSE 0

\* [A-Za-z]+\d+[A-Za-z]* at i.  Each quantifier is greedy; giving back a
\* letter leaves a letter where a digit is needed, so only the longest
\* runs can match.
MatchLettersDigits(s, i) ==
    LET a == RunLength("[A-Za-z]", s, i)
        b == RunLength("\\d", s, i + a)
        c == RunLength("[A-Za-z]", s, i + a + b)
    IN  IF a >= 1 /\ b >= 1 THEN i + a + b + c ELSE 0

\* [A-Za-z]*\d+[A-Za-z]+ at i.
MatchDigitsLetters(s, i) ==
    LET a == RunLength("[A-Za-z]", s, i)
        b == RunLength("\\d", s, i + a)
        c == RunLength("[A-Za-z]", s, i + a + b)
    IN  IF b >= 1 /\ c >= 1 THEN i + a + b + c ELSE 0

\* The match of a source that starts at position i of s (1-based): the
\* position after its last character, or 0 when none starts there.
MatchAt(source, s, i) ==
    CASE source = "\\d" -> MatchClass(source, s, i)
      [] source = "[\\W_]" -> MatchClass(source, s, i)
      [] source = "[A-Z]" -> MatchClass(source, s, i)
      [] source = "[a-z]" -> MatchClass(source, s, i)
      [] source = "(.).*?\\1" -> MatchRepeated(s, i)
      [] source = "\\d{4}" -> MatchRepeat("\\d", 4, s, i)
      [] source = "\\d{6}" -> MatchRepeat("\\d", 6, s, i)
      [] source = "[A-Za-z]{4}" -> MatchRepeat("[A-Za-z]", 4, s, i)
      [] source = "[A-Za-z]{6}" -> MatchRepeat("[A-Za-z]", 6, s, i)
      [] source = "([A-Za-z\\d])\\1{2,}" -> MatchIdentical(2, s, i)
      [] source = "[A-Za-z]+\\d+[A-Za-z]*" -> MatchLettersDigits(s, i)
      [] source = "[A-Za-z]*\\d+[A-Za-z]+" -> MatchDigitsLetters(s, i)
      [] source = "([A-Za-z\\d])\\1{3,}" -> MatchIdentical(3, s, i)

\* The matches of re in s that a search from the index from (0-based) can
\* return, each as <<start, end>> (1-based start, end the position after
\* the match): with the flag y only the match that starts at from.
Matches(re, s, from) ==
    {m \in {<<i, MatchAt(re.source, s, i)>> : i \in (from + 1)..(Len(s) + 1)} :
        /\ m[2] > 0
        /\ ("y" \in re.flags => m[1] = from + 1)}

\* The leftmost of a set of matches.
Leftmost(matches) ==
    CHOOSE m \in matches : \A other \in matches : m[1] <= other[1]

\* The outcome of a search that found matches: whether there is one, and
\* lastIndex, which only a search with g or y writes (the match's end, or 0
\* on failure).
Searched(re, last, matches) ==
    [matched |-> matches # {},
     lastIndex |-> IF re.flags \cap {"g", "y"} = {} THEN last
                   ELSE IF matches = {} THEN 0
                   ELSE Leftmost(matches)[2] - 1]

\* re.test(s) with re.lastIndex = last (RegExpBuiltinExec): the search
\* starts at lastIndex when g or y is set and at 0 otherwise.
test(re, s, last) ==
    Searched(re, last,
             Matches(re, s, IF re.flags \cap {"g", "y"} = {} THEN 0 ELSE last))

\* array[i] for a 0-based index: undefined past the end and at a hole.
Index(array, i) ==
    IF i + 1 \in 1..Len(array.e) /\ array.e[i + 1] # Hole
    THEN array.e[i + 1]
    ELSE Undefined

MinimumLength == 8

\* The outcome of evaluate: what it returns or throws, and the lastIndex
\* values it leaves.
Outcome(out, li) == [out |-> out, lastIndex |-> li]

\* A variant of Result: the strings of the built-in defaults, whatever the
\* instance was configured with.
ResultFromDefaults(this, level, quality, suggestion) ==
    Return([level |-> level,
            quality |-> Index(qualities, quality),
            suggestion |-> Index(suggestions, suggestion)])

\* { level, quality: this.qualities[quality], suggestion:
\* this.suggestions[suggestion] }
Result(this, level, quality, suggestion) ==
    Return([level |-> level,
            quality |-> Index(this.qualities, quality),
            suggestion |-> Index(this.suggestions, suggestion)])

\* The lastIndex values li after re.test gave t.
Tested(re, li, t) ==
    [matched |-> t.matched, lastIndex |-> [li EXCEPT ![re.source] = t.lastIndex]]

\* re.test(s) with the lastIndex values li: whether it matched, and the
\* lastIndex values left.
step(re, s, li) == Tested(re, li, test(re, s, li[re.source]))

\* The loop over patterns from index i (1-based) with the lastIndex values
\* li: whether one matched, and the lastIndex values left behind.
RECURSIVE patternsLoop(_, _, _)

\* if (patterns[i].test(password)) return ...; else i += 1
patternsNext(i, s, t) ==
    IF t.matched THEN t ELSE patternsLoop(i + 1, s, t.lastIndex)

patternsLoop(i, s, li) ==
    IF i > Len(patterns) THEN [matched |-> FALSE, lastIndex |-> li]
    ELSE patternsNext(i, s, step(patterns[i], s, li))

(***************************************************************************)
(* evaluate(password) on the instance this, with the lastIndex values li   *)
(* of the regular expressions: the outcome and the lastIndex values left.  *)
(* classify is its body after the type check, on the characters s; each    *)
(* of its checks is an operator that takes the result t of its test and    *)
(* returns or goes on to the next check.                                   *)
(***************************************************************************)
\* The loop over patterns has run: level 4 if one matched, else level 5.
checkedPatterns(this, s, t) ==
    IF t.matched THEN Outcome(Result(this, 4, 3, 5), t.lastIndex)
    ELSE Outcome(Result(this, 5, 4, 6), t.lastIndex)

\* if (regexps.repeated.test(password))
checkedRepeated(this, s, t) ==
    IF t.matched THEN Outcome(Result(this, 4, 3, 4), t.lastIndex)
    ELSE checkedPatterns(this, s, patternsLoop(1, s, t.lastIndex))

\* if (!regexps.symbols.test(password))
checkedSymbols(this, s, t) ==
    IF ~t.matched THEN Outcome(Result(this, 3, 2, 3), t.lastIndex)
    ELSE checkedRepeated(this, s, step(regexps.repeated, s, t.lastIndex))

\* A variant of checkedNumbers: the level is used as the index of the
\* quality.
checkedNumbersQualityByLevel(this, s, t) ==
    IF ~t.matched THEN Outcome(Result(this, 2, 2, 2), t.lastIndex)
    ELSE checkedSymbols(this, s, step(regexps.symbols, s, t.lastIndex))

\* if (!regexps.numbers.test(password))
checkedNumbers(this, s, t) ==
    IF ~t.matched THEN Outcome(Result(this, 2, 1, 2), t.lastIndex)
    ELSE checkedSymbols(this, s, step(regexps.symbols, s, t.lastIndex))

\* ... || !regexps.uppercases.test(password)
checkedUppercases(this, s, t) ==
    IF ~t.matched THEN Outcome(Result(this, 1, 1, 1), t.lastIndex)
    ELSE checkedNumbers(this, s, step(regexps.numbers, s, t.lastIndex))

\* if (!regexps.lowercases.test(password) || ...
checkedLowercases(this, s, t) ==
    IF ~t.matched THEN Outcome(Result(this, 1, 1, 1), t.lastIndex)
    ELSE checkedUppercases(this, s, step(regexps.uppercases, s, t.lastIndex))

classify(this, s, li) ==
    IF Len(s) < MinimumLength THEN Outcome(Result(this, 0, 0, 0), li)
    ELSE checkedLowercases(this, s, step(regexps.lowercases, s, li))

\* A variant of evaluate: no type check, a value that is no string has no
\* characters.
evaluateUnchecked(this, password, li) ==
    classify(this, IF password.t = "string" THEN password.s ELSE <<>>, li)

evaluate(this, password, li) ==
    IF TypeOf(password) # "string"
    THEN Outcome(Throw("TypeError",
                         "The \"password\" value must be a string type."), li)
    ELSE classify(this, password.s, li)

(***************************************************************************)
(* Inputs.                                                                 *)
(***************************************************************************)
\* A property that is not there.
Absent == [t |-> "absent"]

Optional(values) == values \cup {Absent}

\* The object with the properties of the record all that are not Absent.
ObjectOf(all) ==
    Obj([p \in {q \in DOMAIN all : all[q] # Absent} |-> all[p]])

\* Sizes run over the halves from -1 to MaxSize + 1.
MaxSize == 3

SmallNumbers == {Num(h) : h \in (-2)..(2 * (MaxSize + 1))}

NonNumbers ==
    {Undefined, Null, Bool(TRUE), Bool(FALSE),
     Str(<<>>), Str(<<"2">>), Str(<<"x">>), Str(<<" ", "1">>)}

SizeValues ==
    SmallNumbers \cup NonNumbers
    \cup {NaN, Integer(DefaultMaximum), Integer(DefaultMaximum + 1)}

FlagValues == {Bool(TRUE), Bool(FALSE), Str(<<"x">>)}

OptionsObjects(sizes, flags) ==
    {ObjectOf([size |-> sz, numbers |-> n, symbols |-> s,
               uppercases |-> u, lowercases |-> l]) :
        sz \in Optional(sizes), n \in Optional(flags), s \in Optional(flags),
        u \in Optional(flags), l \in Optional(flags)}

NonObjects ==
    {Undefined, Null, Bool(TRUE), Bool(FALSE), Integer(2), NaN,
     Str(<<>>), Str(<<"x">>), Arr(<<>>)}

CheckInputs == NonObjects \cup OptionsObjects(SizeValues, FlagValues)

\* The settings of the instances: the three fields, each there or not.
CustomSuggestions ==
    Arr(<< Text("s0"), Text("s1"), Text("s2"), Text("s3"), Text("s4"),
           Text("s5"), Text("s6") >>)

CustomQualities ==
    Arr(<< Text("q0"), Text("q1"), Text("q2"), Text("q3"), Text("q4") >>)

MaximumValues ==
    {Integer(0), Integer(-1), Integer(MaxSize - 1), Num(2 * MaxSize - 1),
     Integer(DefaultMaximum), NaN}

SettingsInputs ==
    {Undefined}
    \cup {ObjectOf([maximum |-> m, suggestions |-> Absent, qualities |-> Absent]) :
            m \in Optional(MaximumValues)}
    \cup {ObjectOf([maximum |-> m, suggestions |-> CustomSuggestions,
                    qualities |-> CustomQualities]) :
            m \in {Absent, Integer(MaxSize - 1)}}

(***************************************************************************)
(* The state: the instance (Null when construction threw), the lastIndex   *)
(* of every regular expression, the last call with its outcome, memo, the  *)
(* first evaluation made, todo, the calls the caller has yet to make, and  *)
(* built, the instance as construction left it.                            *)
(***************************************************************************)
\* The n-th call of the caller (the construction is call 0).
Call(n, op, arg, random, out) ==
    [n |-> n, op |-> op, arg |-> arg, random |-> random, out |-> out]

\* A call to make: the method, its argument and, for generate, the
\* numerators of the values Math.random() will yield.
Planned(op, arg, random) == [op |-> op, arg |-> arg, random |-> random]

CheckCalls(inputs) == {Planned("checkOptions", o, <<>>) : o \in inputs}

GenerateCalls(this, inputs) ==
    UNION {{Planned("generate", o, r) : r \in [1..Draws(this, o) -> Randoms]} :
              o \in inputs}

EvaluateCalls(inputs) == {Planned("evaluate", p, <<>>) : p \in inputs}

\* The sequences of at most n calls from a set.
RECURSIVE Plans(_, _)
Plans(calls, n) ==
    IF n = 0 THEN {<<>>}
    ELSE LET shorter == Plans(calls, n - 1)
         IN  shorter \cup {<<c>> \o plan : c \in calls,
                              plan \in {q \in shorter : Len(q) = n - 1}}

Construct(settings) ==
    LET out == constructor(settings)
    IN  /\ call = Call(0, "constructor", settings, <<>>, out)
        /\ inst = IF out.kind = "return" THEN out.value ELSE Null
        /\ lastIndex = [source \in RegExpSources |-> 0]
        /\ memo = Null
        /\ built = inst

CallCheckOptions ==
    /\ todo # <<>>
    /\ Head(todo).op = "checkOptions"
    /\ LET options == Head(todo).arg
       IN  call' = Call(call.n + 1, "checkOptions", options, <<>>,
                        checkOptions(inst, options))
    /\ todo' = Tail(todo)
    /\ UNCHANGED <<inst, lastIndex, memo, built>>

\* A variant of the generate call: while the password drawn does not reach
\* level 5 and the random source has size values left, draw again.
RECURSIVE generateUntilStrong(_, _, _)
generateUntilStrong(this, options, random) ==
    LET out == generate(this, options, random)
    IN  IF out.kind = "return" /\ out.value # Null
           /\ Len(random) >= 2 * Len(out.value.s)
           /\ Len(out.value.s) > 0
           /\ evaluate(this, out.value, [source \in RegExpSources |-> 0])
                 .out.value.level < 5
        THEN generateUntilStrong(this, options,
                 SubSeq(random, Len(out.value.s) + 1, Len(random)))
        ELSE out

CallGenerateUntilStrong ==
    /\ todo # <<>>
    /\ Head(todo).op = "generate"
    /\ LET options == Head(todo).arg
           random == Head(todo).random
       IN  call' = Call(call.n + 1, "generate", options, random,
                        generateUntilStrong(inst, options, random))
    /\ todo' = Tail(todo)
    /\ UNCHANGED <<inst, lastIndex, memo, built>>

CallGenerate ==
    /\ todo # <<>>
    /\ Head(todo).op = "generate"
    /\ LET options == Head(todo).arg
           random == Head(todo).random
       IN  call' = Call(call.n + 1, "generate", options, random,
                        generate(inst, options, random))
    /\ todo' = Tail(todo)
    /\ UNCHANGED <<inst, lastIndex, memo, built>>

CallEvaluate ==
    /\ todo # <<>>
    /\ Head(todo).op = "evaluate"
    /\ LET password == Head(todo).arg
           result == evaluate(inst, password, lastIndex)
       IN  /\ call' = Call(call.n + 1, "evaluate", password, <<>>, result.out)
           /\ lastIndex' = result.lastIndex
           /\ memo' = IF memo = Null
                      THEN [n |-> call.n + 1, password |-> password,
                            out |-> result.out]
                      ELSE memo
    /\ todo' = Tail(todo)
    /\ UNCHANGED <<inst, built>>

\* One checkOptions call on every request.
InitCheck ==
    \E settings \in SettingsInputs :
        /\ Construct(settings)
        /\ todo \in IF inst = Null THEN {<<>>}
                    ELSE {<<c>> : c \in CheckCalls(CheckInputs)}

SpecCheck == InitCheck /\ [][CallCheckOptions]_vars

(***************************************************************************)
(* checkOptions: the claims.                                               *)
(***************************************************************************)
FlagNames == <<"numbers", "symbols", "uppercases", "lowercases">>

Checked == call.op = "checkOptions"

\* The values the claims call "not an object".
IsNonObject(v) == v.t \in {"string", "number", "boolean", "undefined", "null"}

\* An integer number n with lo <= n <= hi, hi a number in halves.
IsIntegerIn(v, lo, hi) ==
    v.t = "number" /\ v.k = "fin" /\ v.h % 2 = 0 /\ 2 * lo <= v.h /\ v.h <= hi.h

\* A number n with 1 <= n <= maximum.
IsSizeInRange(this, v) ==
    v.t = "number" /\ v.k = "fin" /\ 2 <= v.h /\ v.h <= this.maximum.h

\* Every flag is absent or a boolean, and one of them is true.
FlagsValid(options) ==
    /\ \A i \in 1..Len(FlagNames) :
          ReflectHas(options, FlagNames[i])
              => Get(options, FlagNames[i]) \in {Bool(TRUE), Bool(FALSE)}
    /\ \E i \in 1..Len(FlagNames) : Get(options, FlagNames[i]) = Bool(TRUE)

\* C3: checkOptions never raises: it returns a result for every argument,
\* and for a string, a number, a boolean, undefined or null the result is
\* {ok: false, reason: 'Options must be an object.'}.
C3_NeverRaises ==
    Checked =>
        /\ call.out.kind = "return"
        /\ IsNonObject(call.arg)
              => call.out = Rejected("Options must be an object.")

\* C7: checkOptions returns {ok: true, reason: null} exactly when the
\* request is an object with a size, 1 <= size <= maximum, every present
\* flag a boolean and one flag true; in every other case it returns
\* ok: false with a reason string.
C7_AcceptsExactly ==
    Checked =>
        /\ call.out.kind = "return"
        /\ IF /\ call.arg.t = "object"
              /\ ReflectHas(call.arg, "size")
              /\ IsSizeInRange(inst, Get(call.arg, "size"))
              /\ FlagsValid(call.arg)
           THEN call.out = Validation(TRUE, Null)
           ELSE /\ call.out.value.ok = FALSE
                /\ call.out.value.reason.t = "string"

\* The conditions of checkOptions in their order, each with its reason.
Conditions(this, options) ==
    << [violated |-> options.t \notin {"object", "array"},
        reason |-> "Options must be an object."],
       [violated |-> ~ReflectHas(options, "size"),
        reason |-> "The \"size\" property is required."],
       [violated |-> LessThan(Get(options, "size"), Integer(1)),
        reason |-> "The password length must be greater than 1."],
       [violated |-> GreaterThan(Get(options, "size"), this.maximum),
        reason |-> "The password length must be less than specified maximum."],
       [violated |-> NotBoolean(options, "numbers"),
        reason |-> "The \"numbers\" option must be a boolean."],
       [violated |-> NotBoolean(options, "symbols"),
        reason |-> "The \"symbols\" option must be a boolean."],
       [violated |-> NotBoolean(options, "uppercases"),
        reason |-> "The \"uppercases\" option must be a boolean."],
       [violated |-> NotBoolean(options, "lowercases"),
        reason |-> "The \"lowercases\" option must be a boolean."],
       [violated |-> \A i \in 1..Len(FlagNames) :
                        ~Truthy(Get(options, FlagNames[i])),
        reason |-> "You must select at least one option to generate the password."] >>

Violated(this, options) ==
    {i \in 1..Len(Conditions(this, options)) :
        Conditions(this, options)[i].violated}

First(indices) == CHOOSE i \in indices : \A j \in indices : i <= j

HasIntegerSize(options) ==
    /\ options.t = "object"
    /\ ReflectHas(options, "size")
    /\ Get(options, "size").t = "number"
    /\ Get(options, "size").k = "fin"
    /\ Get(options, "size").h % 2 = 0
    /\ FlagsValid(options)

\* C9: on an instance with maximum M, for a request with a flag true and an
\* integer size: a size < 1 is rejected with the reason 'greater than 1', a
\* size > M with the reason 'less than specified maximum', and the sizes 1
\* and M are accepted.
C9_SizeBounds ==
    Checked /\ HasIntegerSize(call.arg) =>
        LET size == Get(call.arg, "size")
            M == inst.maximum
        IN  /\ size.h < 2 =>
                 call.out = Rejected("The password length must be greater than 1.")
            /\ size.h > M.h =>
                 call.out = Rejected("The password length must be less than specified maximum.")
            /\ size = Integer(1) \/ size = M => call.out = Validation(TRUE, Null)

\* The present flags of a request that are no booleans, by position.
NonBooleanFlags(options) ==
    {i \in 1..Len(FlagNames) :
        /\ ReflectHas(options, FlagNames[i])
        /\ Get(options, FlagNames[i]) \notin {Bool(TRUE), Bool(FALSE)}}

BooleanReason(flag) == "The \"" \o flag \o "\" option must be a boolean."

HasValidSize(this, options) ==
    /\ options.t = "object"
    /\ ReflectHas(options, "size")
    /\ IsSizeInRange(this, Get(options, "size"))

\* C10 as stated: with a valid size, every flag that is present with a
\* value that is no boolean makes checkOptions return ok: false with the
\* reason that names that flag.
C10_EveryNonBooleanNamed ==
    Checked /\ HasValidSize(inst, call.arg) =>
        \A i \in NonBooleanFlags(call.arg) :
            call.out = Rejected(BooleanReason(FlagNames[i]))

\* C10 as amended: with a valid size, a request with a flag that is present
\* and no boolean is rejected with the reason that names the first such
\* flag in the order numbers, symbols, uppercases, lowercases, also when the
\* value is truthy and when another flag is true.
C10_FirstNonBooleanNamed ==
    Checked /\ HasValidSize(inst, call.arg)
            /\ NonBooleanFlags(call.arg) # {} =>
        call.out =
            Rejected(BooleanReason(FlagNames[First(NonBooleanFlags(call.arg))]))

\* C10's case: a truthy string as a flag beside a flag that is true.
C10_Witness ==
    /\ Checked
    /\ HasValidSize(inst, call.arg)
    /\ Get(call.arg, "numbers") = Bool(TRUE)
    /\ Get(call.arg, "symbols") = Str(<<"x">>)
    /\ call.out = Rejected("The \"symbols\" option must be a boolean.")

(***************************************************************************)
(* generate: one call on every request whose size is small.                *)
(***************************************************************************)
MaxGenerated == 2

GenerateSizes ==
    {Num(h) : h \in (-2)..(2 * (MaxGenerated + 1))} \cup NonNumbers \cup {NaN}

GenerateInputs == NonObjects \cup OptionsObjects(GenerateSizes, FlagValues)

GenerateSettings ==
    {Undefined}
    \cup {ObjectOf([maximum |-> m, suggestions |-> Absent, qualities |-> Absent]) :
            m \in {Integer(-1), Integer(MaxGenerated), Num(2 * MaxGenerated + 1)}}

InitGenerate ==
    \E settings \in GenerateSettings :
        /\ Construct(settings)
        /\ IF inst = Null THEN todo = <<>>
           ELSE \E options \in GenerateInputs :
                    \E random \in [1..Draws(inst, options) -> Randoms] :
                        todo = <<Planned("generate", options, random)>>

SpecGenerate == InitGenerate /\ [][CallGenerate]_vars

Generated == call.op = "generate"

Range(seq) == {seq[i] : i \in 1..Len(seq)}

\* The characters of the alphabets whose flag is true in the request.
AllowedChars(options) ==
    (IF Get(options, "numbers") = Bool(TRUE) THEN Range(numbers) ELSE {})
    \cup (IF Get(options, "symbols") = Bool(TRUE) THEN Range(symbols) ELSE {})
    \cup (IF Get(options, "uppercases") = Bool(TRUE) THEN Range(uppercases) ELSE {})
    \cup (IF Get(options, "lowercases") = Bool(TRUE) THEN Range(lowercases) ELSE {})

\* C1: for every request checkOptions accepts, generate returns a string of
\* exactly request.size characters, each from the alphabet of a flag that
\* is true in the request, whatever the random source yields.
C1_SizeAndAlphabet ==
    Generated /\ checkOptions(inst, call.arg) = Validation(TRUE, Null) =>
        /\ call.out.kind = "return"
        /\ call.out.value.t = "string"
        /\ Get(call.arg, "size") = Integer(Len(call.out.value.s))
        /\ Range(call.out.value.s) \subseteq AllowedChars(call.arg)

\* C2: generate returns null exactly when checkOptions returns ok: false for
\* the same request on the same instance; a rejected request yields null,
\* no exception and no characters.
C2_NullIffRejected ==
    Generated =>
        LET check == checkOptions(inst, call.arg)
            rejected == check.kind = "return" /\ ~check.value.ok
        IN  (call.out = Return(Null)) <=> rejected

\* C2's case: the request of the test suite, which checkOptions rejects.
C2_Witness ==
    /\ Generated
    /\ call.arg = Obj([size |-> Integer(0), numbers |-> Bool(FALSE),
                       symbols |-> Bool(FALSE), uppercases |-> Bool(FALSE),
                       lowercases |-> Bool(FALSE)])
    /\ checkOptions(inst, call.arg).value.ok = FALSE
    /\ call.out = Return(Null)

(***************************************************************************)
(* evaluate: one call on every argument, a string being a stem followed by *)
(* at most MaxSuffix characters.                                           *)
(***************************************************************************)
MaxSuffix == 3

SuffixChars == {"a", "b", "A", "1", "$", "_", " ", "\n"}

RECURSIVE Strings(_, _)
Strings(chars, n) ==
    IF n = 0 THEN {<<>>}
    ELSE LET shorter == Strings(chars, n - 1)
         IN  shorter \cup {Append(s, c) : s \in shorter, c \in chars}

Stems ==
    { <<>>,
      <<"M", "a", "$", "b", "e", "l", "-", "5", "6", "1">>,
      <<"M", "y", "S", "t", "r", "0", "n", "g", "P", "@", "s", "s", "w", "o", "r", "d", "!">>,
      <<"a", "b", "c", "d", "e", "f", "g", "h">>,
      <<"q", "-", "W", "$", "7">>,
      <<"Q", "$", "1", "a", "a", "a">> }

Passwords == {Str(stem \o suffix) : stem \in Stems,
                 suffix \in Strings(SuffixChars, MaxSuffix)}

NonStrings ==
    {Undefined, Null, Bool(TRUE), Bool(FALSE), Integer(8), NaN, Obj(<<>>),
     Arr(<<>>), Arr(<<Str(<<"a">>)>>)}

EvaluateInputs == NonStrings \cup Passwords

InitEvaluate ==
    \E settings \in {Undefined,
                     ObjectOf([maximum |-> Absent,
                               suggestions |-> CustomSuggestions,
                               qualities |-> CustomQualities])} :
        /\ Construct(settings)
        /\ todo \in IF inst = Null THEN {<<>>}
                    ELSE {<<c>> : c \in EvaluateCalls(EvaluateInputs)}

SpecEvaluate == InitEvaluate /\ [][CallEvaluate]_vars

Evaluated == call.op = "evaluate"

\* An Evaluation of the instance this: the level with the quality and the
\* suggestion at the given indices of its arrays.
Evaluation(this, level, quality, suggestion) ==
    Return([level |-> level,
            quality |-> this.qualities.e[quality + 1],
            suggestion |-> this.suggestions.e[suggestion + 1]])

HasCharIn(s, alphabet) == \E i \in 1..Len(s) : s[i] \in Range(alphabet)

\* A character that is no letter and no digit.
HasSymbol(s) ==
    \E i \in 1..Len(s) :
        s[i] \notin Range(lowercases) \cup Range(uppercases) \cup Range(numbers)

\* Some character occurs at two positions.
HasRepeatedChar(s) == \E i, j \in 1..Len(s) : i < j /\ s[i] = s[j]

\* One of the common patterns matches somewhere.
HasCommonPattern(s) ==
    \E k \in 1..Len(patterns) :
        \E i \in 1..(Len(s) + 1) : MatchAt(patterns[k].source, s, i) > 0

\* The row of the table a string falls in: <<level, quality, suggestion>>.
Row(s) ==
    IF Len(s) < 8 THEN <<0, 0, 0>>
    ELSE IF ~HasCharIn(s, lowercases) \/ ~HasCharIn(s, uppercases) THEN <<1, 1, 1>>
    ELSE IF ~HasCharIn(s, numbers) THEN <<2, 1, 2>>
    ELSE IF ~HasSymbol(s) THEN <<3, 2, 3>>
    ELSE IF HasRepeatedChar(s) THEN <<4, 3, 4>>
    ELSE IF HasCommonPattern(s) THEN <<4, 3, 5>>
    ELSE <<5, 4, 6>>

\* C4: for every string, evaluate returns the level, quality and suggestion
\* of the first row, in the order 1..7, whose condition holds: length < 8,
\* no lowercase or no uppercase letter, no digit, no symbol, a repeated
\* character, a common pattern, none of these.
C4_FirstMatchingRow ==
    Evaluated /\ call.arg.t = "string" =>
        LET row == Row(call.arg.s)
        IN  call.out = Evaluation(inst, row[1], row[2], row[3])

\* C6: evaluate raises a TypeError for every argument that is no primitive
\* string and returns no Evaluation; for a string of any length, the empty
\* one included, it does not raise.
C6_TypeErrorUnlessString ==
    Evaluated =>
        IF call.arg.t = "string"
        THEN call.out.kind = "return"
        ELSE call.out.kind = "throw" /\ call.out.error = "TypeError"

\* C6's case: the call of the test suite, evaluate(true).
C6_Witness ==
    /\ Evaluated
    /\ call.arg = Bool(TRUE)
    /\ call.out.kind = "throw"
    /\ call.out.error = "TypeError"

(***************************************************************************)
(* The three methods called in any order: every sequence of at most        *)
(* MaxCalls calls from a small set.                                        *)
(***************************************************************************)
MaxCalls == 3

SomeOptions ==
    {Null,
     Obj([size |-> Integer(0)]),
     Obj([size |-> Integer(1), numbers |-> Bool(TRUE)])}

SomeArguments ==
    {Bool(TRUE), Str(<<>>), Str(<<"a", "b", "c", "d", "e", "f", "g", "A">>), Str(<<"M", "a", "$", "b", "e", "l", "-", "5", "6", "1">>)}

SomeCalls(this) ==
    CheckCalls(SomeOptions \ {Obj([size |-> Integer(0)])})
    \cup GenerateCalls(this, SomeOptions \ {Null})
    \cup EvaluateCalls(SomeArguments)

Init ==
    \E settings \in {Undefined,
                     ObjectOf([maximum |-> Absent,
                               suggestions |-> CustomSuggestions,
                               qualities |-> CustomQualities])} :
        /\ Construct(settings)
        /\ todo \in IF inst = Null THEN {<<>>}
                    ELSE Plans(SomeCalls(inst), MaxCalls)

Next == CallCheckOptions \/ CallGenerate \/ CallEvaluate

Spec == Init /\ [][Next]_vars

\* C5: evaluate returns exactly one Evaluation for every string, and after
\* any calls of evaluate, generate and checkOptions on the instance, the
\* same string evaluates to the same level, quality and suggestion as the
\* first time.
C5_SameEvaluationAgain ==
    Evaluated =>
        /\ call.arg.t = "string" =>
              /\ call.out.kind = "return"
              /\ call.out.value.level \in 0..5
        /\ memo # Null /\ memo.password = call.arg => call.out = memo.out

\* C5's case: a string of 8 characters evaluated again with another call
\* in between.
C5_Witness ==
    /\ Evaluated
    /\ memo # Null
    /\ memo.password = call.arg
    /\ memo.n + 1 < call.n
    /\ call.arg = Str(<<"a", "b", "c", "d", "e", "f", "g", "A">>)
    /\ call.out = memo.out

(***************************************************************************)
(* Construction: new PasswordToolKit(settings) as the one call, on every   *)
(* settings argument.  A supplied array has the length the constructor     *)
(* asks for or up to MaxExcess elements more or fewer.                     *)
(***************************************************************************)
MaxExcess == 1

\* The array of the n strings prefix0, prefix1, ...
StringArray(prefix, n) == Arr([i \in 1..n |-> Text(prefix \o ToString(i - 1))])

\* array with v at the 0-based index i.
WithElement(array, i, v) == Arr([array.e EXCEPT ![i + 1] = v])

\* new Array(n): n holes.
Holes(n) == Arr([i \in 1..n |-> Hole])

\* The values passed as suggestions or qualities, n the length asked for.
ArrayValues(prefix, n) ==
    {StringArray(prefix, k) : k \in (n - MaxExcess)..(n + MaxExcess)}
    \cup UNION {{WithElement(StringArray(prefix, k), i, v) :
                    i \in {0, k - 1}, v \in {Integer(1), Hole}} :
                 k \in {n - 1, n}}
    \cup {Holes(n), Str(<<"x">>), Undefined, Null, Obj(<<>>)}

MaximumSettings ==
    MaximumValues \cup {Str(<<"2">>), Undefined, Null, Bool(TRUE)}

ConstructorInputs ==
    NonObjects
    \cup {ObjectOf([maximum |-> m, suggestions |-> s, qualities |-> q]) :
            m \in Optional(MaximumSettings),
            s \in Optional(ArrayValues("s", SuggestionsLength)),
            q \in Optional(ArrayValues("q", QualitiesLength))}

\* The module is loaded and the caller is about to construct an instance.
InitConstruct ==
    /\ inst = Null
    /\ lastIndex = [source \in RegExpSources |-> 0]
    /\ call = Call(0, "require", Undefined, <<>>, Return(Undefined))
    /\ memo = Null
    /\ built = Null
    /\ \E settings \in ConstructorInputs :
          todo = <<Planned("constructor", settings, <<>>)>>

CallConstructor ==
    /\ todo # <<>>
    /\ Head(todo).op = "constructor"
    /\ LET out == constructor(Head(todo).arg)
       IN  /\ call' = Call(call.n + 1, "constructor", Head(todo).arg, <<>>, out)
           /\ inst' = IF out.kind = "return" THEN out.value ELSE Null
           /\ built' = inst'
    /\ todo' = Tail(todo)
    /\ UNCHANGED <<lastIndex, memo>>

SpecConstruct == InitConstruct /\ [][CallConstructor]_vars

Constructed == call.op = "constructor"

Succeeded == Constructed /\ call.out.kind = "return"

\* array holds a string at every index below its length.
AllStrings(array) ==
    \A i \in 0..(Len(array.e) - 1) : TypeOf(Index(array, i)) = "string"

\* The field of the settings is present and no array of strings.
NotStringArray(settings, field) ==
    /\ ReflectHas(settings, field)
    /\ ~(IsArray(Get(settings, field)) /\ AllStrings(Get(settings, field)))

\* The type defects of a settings argument.
TypeDefect(arg) ==
    \/ arg.t \in {"boolean", "number", "string", "null"}
    \/ /\ arg.t = "object"
       /\ \/ NotStringArray(arg, "suggestions")
          \/ NotStringArray(arg, "qualities")
          \/ /\ ReflectHas(arg, "maximum")
             /\ TypeOf(Get(arg, "maximum")) # "number"

\* C11: construction raises a TypeError and yields no instance whenever the
\* settings are a boolean, a number, a string or null, or suggestions or
\* qualities is present and no array, or maximum is present and no number,
\* or an element of a supplied suggestions or qualities array is no string.
C11_TypeErrorOnTypeDefect ==
    Constructed /\ TypeDefect(call.arg) =>
        /\ call.out.kind = "throw"
        /\ call.out.error = "TypeError"
        /\ inst = Null

\* The field is supplied as an array of strings whose length is not n.
WrongLength(settings, field, n) ==
    /\ ReflectHas(settings, field)
    /\ IsArray(Get(settings, field))
    /\ AllStrings(Get(settings, field))
    /\ Len(Get(settings, field).e) # n

RangeDefect(arg) ==
    /\ arg.t = "object"
    /\ \/ WrongLength(arg, "suggestions", SuggestionsLength)
       \/ WrongLength(arg, "qualities", QualitiesLength)

\* Arrays of exactly 7 and 5 strings and a numeric maximum.
ValidSettings(arg) ==
    /\ arg.t = "object"
    /\ DOMAIN arg.f = {"suggestions", "qualities", "maximum"}
    /\ ~TypeDefect(arg)
    /\ ~RangeDefect(arg)

ExplicitDefaults ==
    Obj([suggestions |-> suggestions, qualities |-> qualities,
         maximum |-> Integer(DefaultMaximum)])

\* C13: a successful construction gives every field the settings omit its
\* default, whatever the other fields are: maximum 30, the 5 built-in
\* qualities, the 7 built-in suggestions; and constructing with no argument
\* gives the instance that the three defaults passed explicitly give.
C13_DefaultPerField ==
    Succeeded =>
        LET omits(field) ==
                call.arg.t # "object" \/ ~ReflectHas(call.arg, field)
        IN  /\ omits("maximum") => inst.maximum = Integer(30)
            /\ omits("qualities") =>
                  inst.qualities =
                      Arr(<< Text("insecure"), Text("low"), Text("medium"),
                             Text("high"), Text("perfect") >>)
            /\ omits("suggestions") =>
                  /\ inst.suggestions = suggestions
                  /\ Len(inst.suggestions.e) = 7
            /\ call.arg = Undefined =>
                  Return(inst) = constructor(ExplicitDefaults)

\* C13's case: only the maximum is passed.
C13_Witness ==
    /\ Succeeded
    /\ call.arg = Obj([maximum |-> Integer(MaxSize - 1)])
    /\ inst.maximum = Integer(MaxSize - 1)
    /\ inst.qualities = qualities
    /\ inst.suggestions = suggestions

\* v is an integer greater than 0.
IsPositiveInteger(v) ==
    v.t = "number" /\ v.k = "fin" /\ v.h % 2 = 0 /\ v.h >= 2

\* C17: every instance constructed has a maximum that is an integer greater
\* than 0, 7 suggestions that are strings and 5 qualities that are strings.
C17_SettingsWellFormed ==
    Succeeded =>
        /\ IsPositiveInteger(inst.maximum)
        /\ IsArray(inst.suggestions)
        /\ Len(inst.suggestions.e) = 7
        /\ AllStrings(inst.suggestions)
        /\ IsArray(inst.qualities)
        /\ Len(inst.qualities.e) = 5
        /\ AllStrings(inst.qualities)

(***************************************************************************)
(* evaluate: the strings of the Evaluation and the precedence of its       *)
(* rules.                                                                  *)
(***************************************************************************)
\* The rows of the table: <<level, quality index, suggestion index>>.
TableRows ==
    {<<0, 0, 0>>, <<1, 1, 1>>, <<2, 1, 2>>, <<3, 2, 3>>, <<4, 3, 4>>,
     <<4, 3, 5>>, <<5, 4, 6>>}

\* C14: the quality and the suggestion of every Evaluation are the elements
\* of the instance's own qualities and suggestions at the indices of a row
\* of the table, and an instance built with custom arrays returns the
\* custom strings, none of the built-in ones.
C14_OwnStrings ==
    Evaluated /\ call.out.kind = "return" =>
        /\ \E row \in TableRows :
              call.out = Evaluation(inst, row[1], row[2], row[3])
        /\ inst.qualities = CustomQualities =>
              call.out.value.quality \notin Range(qualities.e)
        /\ inst.suggestions = CustomSuggestions =>
              call.out.value.suggestion \notin Range(suggestions.e)

\* C14's case: level 5 on an instance built with custom arrays.
C14_Witness ==
    /\ Evaluated
    /\ inst.qualities = CustomQualities
    /\ inst.suggestions = CustomSuggestions
    /\ call.arg = Str(<<"M", "a", "$", "b", "e", "l", "-", "5", "6", "1">>)
    /\ call.out = Return([level |-> 5, quality |-> Text("q4"),
                          suggestion |-> Text("s6")])

\* C15: a password of 8 characters or more with a lowercase letter, an
\* uppercase letter, a digit and a symbol that has a repeated character and
\* matches a common pattern gets level 4 with quality index 3 and
\* suggestion index 4, not 5.
C15_RepeatedBeforePattern ==
    Evaluated /\ call.arg.t = "string" =>
        LET s == call.arg.s
        IN  /\ Len(s) >= 8
            /\ HasCharIn(s, lowercases)
            /\ HasCharIn(s, uppercases)
            /\ HasCharIn(s, numbers)
            /\ HasSymbol(s)
            /\ HasRepeatedChar(s)
            /\ HasCommonPattern(s)
            => call.out = Evaluation(inst, 4, 3, 4)

\* The index of the quality of a level.
QualityIndex(level) == <<0, 1, 1, 2, 3, 4>>[level + 1]

\* The indices a level's suggestion can have.
SuggestionIndices(level) ==
    IF level = 4 THEN {4, 5} ELSE IF level = 5 THEN {6} ELSE {level}

\* C19: every Evaluation has a level in 0..5, a quality that is one of the
\* instance's qualities and a suggestion that is one of its suggestions;
\* the quality index is 0, 1, 1, 2, 3, 4 for the levels 0..5, and the
\* suggestion index is the level for the levels 0..3, 4 or 5 for level 4
\* and 6 for level 5.
C19_IndicesByLevel ==
    Evaluated /\ call.out.kind = "return" =>
        LET e == call.out.value
        IN  /\ e.level \in 0..5
            /\ e.quality \in Range(inst.qualities.e)
            /\ e.suggestion \in Range(inst.suggestions.e)
            /\ e.quality = Index(inst.qualities, QualityIndex(e.level))
            /\ \E j \in SuggestionIndices(e.level) :
                  e.suggestion = Index(inst.suggestions, j)

\* C19's case: level 2, whose quality is the one of level 1.
C19_Witness ==
    /\ Evaluated
    /\ call.arg = Str(<<"a", "b", "c", "d", "e", "f", "g", "h", "A">>)
    /\ call.out.kind = "return"
    /\ call.out.value.level = 2
    /\ call.out.value.quality = Index(inst.qualities, 1)
    /\ call.out.value.suggestion = Index(inst.suggestions, 2)

\* The white space of the model's characters.
Spaces == {" ", "\t", "\n", "\r"}

\* The characters of s that are no letters and no digits.
OtherChars(s) ==
    {s[i] : i \in 1..Len(s)}
        \ (Range(lowercases) \cup Range(uppercases) \cup Range(numbers))

\* C20: a password of 8 characters or more with a lowercase letter, an
\* uppercase letter and a digit whose only other characters are white space
\* or underscores is classified at level 3, and one with any other
\* character that is no letter and no digit passes rule 4.
C20_SymbolIsNonWordNonSpace ==
    Evaluated /\ call.arg.t = "string" =>
        LET s == call.arg.s
        IN  /\ Len(s) >= 8
            /\ HasCharIn(s, lowercases)
            /\ HasCharIn(s, uppercases)
            /\ HasCharIn(s, numbers)
            => IF OtherChars(s) \subseteq Spaces \cup {"_"}
               THEN call.out = Evaluation(inst, 3, 2, 3)
               ELSE call.out.kind = "return" /\ call.out.value.level >= 4

(***************************************************************************)
(* The caller's other steps on an instance.  The three properties are      *)
(* defined with writable: false and configurable: false, so an assignment  *)
(* to one changes nothing (and throws a TypeError in strict code).  The    *)
(* value of suggestions and of qualities is the array passed in the        *)
(* settings, or the module's default array: the same object, not a copy,   *)
(* and not frozen, so the caller who holds the array, or reads it from the *)
(* instance, can write its elements.  The settings object itself is only   *)
(* read during construction.  Plans have MaxSteps steps at most.           *)
(***************************************************************************)
MaxSteps == 2

\* instance[field] = value, in strict code or not.
Assignments ==
    {Planned("assign", [field |-> f, value |-> v, strict |-> b], <<>>) :
        f \in {"maximum", "suggestions", "qualities"},
        v \in {Integer(1)}, b \in BOOLEAN}

\* settings[field] = value after the construction.
SettingAssignments ==
    {Planned("settings", [field |-> f, value |-> Integer(1)], <<>>) :
        f \in {"maximum", "suggestions"}}

\* array[index] = value on the array the instance has as field.
ElementWrites ==
    {Planned("write", [field |-> f, index |-> 0, value |-> Text("changed")], <<>>) :
        f \in {"suggestions", "qualities"}}

MutateCalls(this) ==
    Assignments \cup SettingAssignments \cup ElementWrites
    \cup CheckCalls({Obj([size |-> Integer(MaxSize), numbers |-> Bool(TRUE)])})
    \cup GenerateCalls(this, {Obj([size |-> Integer(1), numbers |-> Bool(TRUE)])})
    \cup EvaluateCalls({Str(<<>>),
                        Str(<<"M", "a", "$", "b", "e", "l", "-", "5", "6", "1">>)})

AssignProperty ==
    /\ todo # <<>>
    /\ Head(todo).op = "assign"
    /\ LET arg == Head(todo).arg
       IN  call' = Call(call.n + 1, "assign", arg, <<>>,
                        IF arg.strict
                        THEN Throw("TypeError", "Cannot assign to read only property")
                        ELSE Return(arg.value))
    /\ todo' = Tail(todo)
    /\ UNCHANGED <<inst, lastIndex, memo, built>>

AssignSetting ==
    /\ todo # <<>>
    /\ Head(todo).op = "settings"
    /\ call' = Call(call.n + 1, "settings", Head(todo).arg, <<>>,
                    Return(Head(todo).arg.value))
    /\ todo' = Tail(todo)
    /\ UNCHANGED <<inst, lastIndex, memo, built>>

WriteElement ==
    /\ todo # <<>>
    /\ Head(todo).op = "write"
    /\ LET arg == Head(todo).arg
       IN  /\ inst' = [inst EXCEPT
                          ![arg.field] = WithElement(@, arg.index, arg.value)]
           /\ call' = Call(call.n + 1, "write", arg, <<>>, Return(arg.value))
    /\ todo' = Tail(todo)
    /\ UNCHANGED <<lastIndex, memo, built>>

InitMutate ==
    \E settings \in {Undefined,
                     ObjectOf([maximum |-> Integer(MaxSize - 1),
                               suggestions |-> CustomSuggestions,
                               qualities |-> CustomQualities])} :
        /\ Construct(settings)
        /\ todo \in Plans(MutateCalls(inst), MaxSteps)

NextMutate ==
    \/ CallCheckOptions
    \/ CallGenerate
    \/ CallEvaluate
    \/ AssignProperty
    \/ AssignSetting
    \/ WriteElement

SpecMutate == InitMutate /\ [][NextMutate]_vars

\* C16: after any calls of checkOptions, generate and evaluate and any
\* attempt of the caller to assign to the instance's properties or to
\* change the settings object or the arrays passed to the constructor,
\* checkOptions decides with the maximum fixed at construction and evaluate
\* returns the quality and suggestion strings fixed at construction.
C16_SettingsImmutable ==
    /\ Checked => call.out = checkOptions(built, call.arg)
    /\ Evaluated => call.out = evaluate(built, call.arg, lastIndex).out

(***************************************************************************)
(* evaluate(generate(request)): a request of MinimumLength characters with *)
(* boolean flags on a default instance, then evaluate on what generate     *)
(* returned.  The random source yields MaxGenerated + 1 values over and    *)
(* over for the MinimumLength draws of generate, and has MinimumLength     *)
(* further values, never asked for by generate.                            *)
(***************************************************************************)
StrengthRequests ==
    {Obj([size |-> Integer(MinimumLength), numbers |-> Bool(n),
          symbols |-> Bool(s), uppercases |-> Bool(u), lowercases |-> Bool(l)]) :
        n \in BOOLEAN, s \in BOOLEAN, u \in BOOLEAN, l \in BOOLEAN}

RandomSource(first, rest) ==
    [i \in 1..(2 * MinimumLength) |->
        IF i <= MinimumLength
        THEN first[((i - 1) % (MaxGenerated + 1)) + 1]
        ELSE rest]

RandomSources ==
    {RandomSource(first, rest) :
        first \in [1..(MaxGenerated + 1) -> Randoms], rest \in Randoms}

\* evaluate(password) on the value the generate call before it returned; the
\* call is recorded with the request and the random source of that generate
\* call.
CallEvaluateGenerated ==
    /\ todo # <<>>
    /\ Head(todo).op = "evaluateGenerated"
    /\ call.op = "generate"
    /\ call.out.kind = "return"
    /\ LET result == evaluate(inst, call.out.value, lastIndex)
       IN  /\ call' = Call(call.n + 1, "evaluateGenerated", call.arg,
                           call.random, result.out)
           /\ lastIndex' = result.lastIndex
    /\ todo' = Tail(todo)
    /\ UNCHANGED <<inst, memo, built>>

InitStrength ==
    /\ Construct(Undefined)
    /\ \E options \in StrengthRequests :
           \E random \in RandomSources :
               todo = <<Planned("generate", options, random),
                        Planned("evaluateGenerated", Absent, <<>>)>>

NextStrength ==
    \/ CallGenerate
    \/ CallEvaluateGenerated

SpecStrength == InitStrength /\ [][NextStrength]_vars

EvaluatedGenerated == call.op = "evaluateGenerated"

AllFourFlags(options) ==
    /\ Get(options, "numbers") = Bool(TRUE)
    /\ Get(options, "symbols") = Bool(TRUE)
    /\ Get(options, "uppercases") = Bool(TRUE)
    /\ Get(options, "lowercases") = Bool(TRUE)

\* The password of the first size values of the random source, one
\* character of the pool for each.
FirstDraws(options, random) ==
    LET pool == charsToArray(getSelectedChars(options))
    IN  Str([i \in 1..(Get(options, "size").h \div 2) |->
                pool[getRandomNumber(Len(pool), random[i]) + 1]])

\* C18: generate never re-draws or retries based on the evaluation: for an
\* accepted request the password is made of the first size values of the
\* random source, whatever level evaluate gives it, and evaluate applied to
\* the generated password evaluates exactly that password (the level may
\* be below 5, see C18_Witness).
C18_NoFeedback ==
    /\ Generated /\ checkOptions(inst, call.arg) = Validation(TRUE, Null) =>
           call.out = Return(FirstDraws(call.arg, call.random))
    /\ EvaluatedGenerated
          /\ checkOptions(inst, call.arg) = Validation(TRUE, Null) =>
           call.out = evaluate(inst, FirstDraws(call.arg, call.random),
                               lastIndex).out

\* C18's case: a request accepted by checkOptions with all four flags true
\* and size 8, and a random source, for which evaluate applied to the
\* generated password returns a level below 5.
C18_Witness ==
    /\ EvaluatedGenerated
    /\ checkOptions(inst, call.arg) = Validation(TRUE, Null)
    /\ AllFourFlags(call.arg)
    /\ Get(call.arg, "size") = Integer(MinimumLength)
    /\ call.out.kind = "return"
    /\ call.out.value.level < 5

(***************************************************************************)
(* The rules of evaluate, one by one.                                      *)
(***************************************************************************)
\* Some character of s is of the class.
HasCharOf(class, s) == \E i \in 1..Len(s) : IsOf(class, s[i])

\* The string gets past the returns of functions.js:412-429.
PassedRules1To4(s) ==
    /\ Len(s) >= MinimumLength
    /\ HasCharOf("[a-z]", s)
    /\ HasCharOf("[A-Z]", s)
    /\ HasCharOf("\\d", s)
    /\ HasCharOf("[\\W_]", s)

\* The return of rule 5 (repeated characters).
Rule5Fired == call.out = Evaluation(inst, 4, 3, 4)

\* C21: for every password that passed rules 1-4, rule 5 fires exactly when
\* some character occurs at two different positions, adjacent or not,
\* whatever characters (line breaks included) lie between or are repeated,
\* comparing by exact character.
C21_RepeatedAnywhere ==
    Evaluated /\ call.arg.t = "string" /\ PassedRules1To4(call.arg.s) =>
        (Rule5Fired <=> HasRepeatedChar(call.arg.s))

(***************************************************************************)
(* The character pool of generate.                                         *)
(***************************************************************************)
\* 1 for a flag that is true in the request, 0 otherwise.
Flag(options, name) == IF Get(options, name) = Bool(TRUE) THEN 1 ELSE 0

\* The alphabets of the flags that are true, digits, symbols, uppercase,
\* lowercase in this order.
Pool(options) ==
    (IF Flag(options, "numbers") = 1 THEN numbers ELSE <<>>)
    \o (IF Flag(options, "symbols") = 1 THEN symbols ELSE <<>>)
    \o (IF Flag(options, "uppercases") = 1 THEN uppercases ELSE <<>>)
    \o (IF Flag(options, "lowercases") = 1 THEN lowercases ELSE <<>>)

Accepted == checkOptions(inst, call.arg) = Validation(TRUE, Null)

ReturnedString ==
    call.out.kind = "return" /\ call.out.value # Null

\* C22: for an accepted request the pool of generate is the concatenation,
\* in the order digits, symbols, uppercase, lowercase, of the alphabets of
\* exactly the flags that are true; it has 10, 32, 26 and 26 characters for
\* the four flags, no character twice and no white space, and every
\* position of the result is pool[i] for the drawn index i, 0 <= i < the
\* pool's length.
C22_PoolInFixedOrder ==
    Generated /\ Accepted =>
        LET pool == Pool(call.arg)
            chars == charsToArray(getSelectedChars(call.arg))
        IN  /\ chars = pool
            /\ Len(chars) = 10 * Flag(call.arg, "numbers")
                            + 32 * Flag(call.arg, "symbols")
                            + 26 * Flag(call.arg, "uppercases")
                            + 26 * Flag(call.arg, "lowercases")
            /\ \A i, j \in 1..Len(chars) : i # j => chars[i] # chars[j]
            /\ Range(chars) \cap WhiteSpace = {}
            /\ ReturnedString =>
                   \A k \in 1..Len(call.out.value.s) :
                       LET i == getRandomNumber(Len(pool), call.random[k])
                       IN  /\ 0 <= i
                           /\ i < Len(pool)
                           /\ call.out.value.s[k] = pool[i + 1]

\* C22's case: digits and lowercase letters requested, and a lowercase
\* letter drawn after a digit.
C22_Witness ==
    /\ Generated
    /\ Accepted
    /\ Flag(call.arg, "numbers") = 1
    /\ Flag(call.arg, "lowercases") = 1
    /\ Flag(call.arg, "symbols") = 0
    /\ ReturnedString
    /\ Len(call.out.value.s) = MaxGenerated
    /\ call.out.value.s[1] \in Range(numbers)
    /\ call.out.value.s[MaxGenerated] \in Range(lowercases)

(***************************************************************************)
(* The size of an accepted request.                                        *)
(***************************************************************************)
\* A number that is an integer.
IsInteger(v) == v.t = "number" /\ v.k = "fin" /\ v.h % 2 = 0

\* C23: every request that checkOptions accepts has a size that is an
\* integer; a size that is a fraction, NaN, undefined, a numeric string or
\* another non-integer value is not accepted.
C23_AcceptedSizeIsInteger ==
    Checked /\ call.out = Validation(TRUE, Null) =>
        IsInteger(Get(call.arg, "size"))

(***************************************************************************)
(* The maximum of an instance.                                             *)
(***************************************************************************)
\* Settings with a numeric maximum (or none) and the other fields valid.
ValidWithMaximum(arg) ==
    /\ arg.t = "object"
    /\ ~TypeDefect(arg)
    /\ ~RangeDefect(arg)

\* The request of n characters with the digits.
DigitsOfSize(n) == Obj([size |-> Integer(n), numbers |-> Bool(TRUE)])

\* C24: when settings.maximum is present and numeric and the other fields
\* are valid, construction succeeds and the instance's maximum is the
\* supplied value; when maximum is absent it is 30.  checkOptions on the
\* instance then accepts an integer size, with a flag true, exactly when
\* 1 <= size <= the supplied maximum.
C24_MaximumAsSupplied ==
    Constructed /\ ValidWithMaximum(call.arg) =>
        /\ call.out.kind = "return"
        /\ IF ReflectHas(call.arg, "maximum")
           THEN LET supplied == Get(call.arg, "maximum")
                IN  /\ inst.maximum = supplied
                    /\ \A n \in 0..(MaxSize + 1) :
                          (checkOptions(inst, DigitsOfSize(n))
                              = Validation(TRUE, Null))
                          <=> (1 <= n /\ supplied # NaN /\ 2 * n <= supplied.h)
           ELSE inst.maximum = Integer(DefaultMaximum)

(***************************************************************************)
(* The order of the constructor's checks.                                  *)
(***************************************************************************)
\* The checks in their order: whether the settings fail it, and the error.
Checks(arg) ==
    LET settings == IF arg = Undefined THEN Obj(<<>>) ELSE arg
        object == settings.t \in {"object", "array"}
        has(p) == object /\ ReflectHas(settings, p)
        array(p) == has(p) /\ IsArray(Get(settings, p))
    IN  << [fails |-> ~object,
            error |-> Throw("TypeError", "The \"options\" must be an object.")],
           [fails |-> has("suggestions") /\ ~array("suggestions"),
            error |-> Throw("TypeError", "The \"suggestions\" value must be an array type.")],
           [fails |-> has("qualities") /\ ~array("qualities"),
            error |-> Throw("TypeError", "The \"qualities\" value must be an array type.")],
           [fails |-> has("maximum") /\ TypeOf(Get(settings, "maximum")) # "number",
            error |-> Throw("TypeError", "The \"maximum\" value must be a number type.")],
           [fails |-> array("suggestions") /\ ~AllStrings(Get(settings, "suggestions")),
            error |-> Throw("TypeError", "All \"suggestions\" values must be a string type.")],
           [fails |-> array("qualities") /\ ~AllStrings(Get(settings, "qualities")),
            error |-> Throw("TypeError", "All \"qualities\" values must be a string type.")],
           [fails |-> array("suggestions")
                      /\ Len(Get(settings, "suggestions").e) # SuggestionsLength,
            error |-> Throw("RangeError", "The \"suggestions\" elements number must be equal to 7.")],
           [fails |-> array("qualities")
                      /\ Len(Get(settings, "qualities").e) # QualitiesLength,
            error |-> Throw("RangeError", "The \"qualities\" elements number must be equal to 5.")] >>

\* The indices of the checks the settings fail.
Failing(arg) == {i \in 1..Len(Checks(arg)) : Checks(arg)[i].fails}

FirstFailing(arg) == CHOOSE i \in Failing(arg) : \A j \in Failing(arg) : i <= j

\* C25: the constructor applies its checks in the order settings
\* object-like, suggestions is array, qualities is array, maximum is
\* number, suggestions elements are strings, qualities elements are
\* strings, suggestions length is 7, qualities length is 5, and raises the
\* error of the first failing check (for null the engine's TypeError), so a
\* type defect is reported before any length defect; with no failing check
\* it succeeds.
C25_FirstFailingCheck ==
    Constructed =>
        IF Failing(call.arg) = {}
        THEN call.out.kind = "return"
        ELSE LET expected == Checks(call.arg)[FirstFailing(call.arg)].error
             IN  /\ call.out.kind = "throw"
                 /\ call.out.error = expected.error
                 /\ call.arg # Null => call.out = expected

(***************************************************************************)
(* The common patterns, numbered 1 to 8 in the order of the array.         *)
(***************************************************************************)
\* patterns[k - 1].test(s)
PatternMatches(k, s) == test(patterns[k], s, 0).matched

\* The loop over patterns is reached: none of the returns before it.
LoopReached(s) ==
    PassedRules1To4(s) /\ ~test(regexps.repeated, s, 0).matched

\* One of the patterns other than pattern k matches.
MatchesOtherThan(k, s) ==
    \E i \in 1..Len(patterns) : i # k /\ PatternMatches(i, s)

\* C26: every string that matches pattern 8 (four or more consecutive
\* identical alphanumeric characters) matches pattern 5 (three or more),
\* and evaluate returns what the loop over the patterns other than
\* pattern 8 gives.
C26_Pattern8Redundant ==
    Evaluated /\ call.arg.t = "string" =>
        /\ PatternMatches(8, call.arg.s) => PatternMatches(5, call.arg.s)
        /\ LoopReached(call.arg.s) =>
              call.out = IF MatchesOtherThan(8, call.arg.s)
                         THEN Evaluation(inst, 4, 3, 5)
                         ELSE Evaluation(inst, 5, 4, 6)

\* C26's case: a string of 8 characters that matches pattern 8.
C26_Witness ==
    /\ Evaluated
    /\ call.arg.t = "string"
    /\ Len(call.arg.s) >= MinimumLength
    /\ PatternMatches(8, call.arg.s)
    /\ PatternMatches(5, call.arg.s)
    /\ call.out.kind = "return"

\* The patterns other than 5 and 8.
OtherPatterns == {1, 2, 3, 4, 6, 7}

\* C28: whenever the loop over patterns is reached, the password has no
\* character occurring twice and patterns 5 and 8 (consecutive identical
\* alphanumeric characters) do not match: the outcome is decided by
\* patterns 1-4, 6 and 7 only.
C28_IdenticalNeverInLoop ==
    Evaluated /\ call.arg.t = "string" /\ LoopReached(call.arg.s) =>
        /\ ~HasRepeatedChar(call.arg.s)
        /\ ~PatternMatches(5, call.arg.s)
        /\ ~PatternMatches(8, call.arg.s)
        /\ call.out = IF \E k \in OtherPatterns : PatternMatches(k, call.arg.s)
                      THEN Evaluation(inst, 4, 3, 5)
                      ELSE Evaluation(inst, 5, 4, 6)

(***************************************************************************)
(* Level 5.                                                                *)
(***************************************************************************)
IsLetterChar(c) == c \in Range(lowercases) \cup Range(uppercases)

IsDigitChar(c) == c \in Range(numbers)

\* n consecutive letters somewhere in s.
HasLetterRun(s, n) ==
    \E i \in 1..(Len(s) - n + 1) : \A k \in i..(i + n - 1) : IsLetterChar(s[k])

\* n consecutive digits somewhere in s.
HasDigitRun(s, n) ==
    \E i \in 1..(Len(s) - n + 1) : \A k \in i..(i + n - 1) : IsDigitChar(s[k])

\* A letter next to a digit, in either order.
HasLetterDigitAdjacency(s) ==
    \E i \in 1..(Len(s) - 1) :
        \/ IsLetterChar(s[i]) /\ IsDigitChar(s[i + 1])
        \/ IsDigitChar(s[i]) /\ IsLetterChar(s[i + 1])

\* Everything level 5 asks for but the absence of a letter next to a digit.
OtherwisePerfect(s) ==
    /\ Len(s) >= 8
    /\ HasCharIn(s, lowercases)
    /\ HasCharIn(s, uppercases)
    /\ HasCharIn(s, numbers)
    /\ HasSymbol(s)
    /\ ~HasRepeatedChar(s)
    /\ ~HasLetterRun(s, 4)
    /\ ~HasDigitRun(s, 4)

\* C27: evaluate returns level 5 exactly for the strings of length >= 8
\* with a lowercase letter, an uppercase letter, a digit and a symbol, all
\* characters pairwise distinct, no run of 4 letters, no run of 4 digits
\* and no letter next to a digit; a letter next to a digit alone lowers an
\* otherwise perfect password to level 4 with suggestion index 5.
C27_LevelFiveExactly ==
    Evaluated /\ call.arg.t = "string" =>
        /\ (call.out = Evaluation(inst, 5, 4, 6))
              <=> (OtherwisePerfect(call.arg.s)
                   /\ ~HasLetterDigitAdjacency(call.arg.s))
        /\ OtherwisePerfect(call.arg.s) /\ HasLetterDigitAdjacency(call.arg.s)
              => call.out = Evaluation(inst, 4, 3, 5)

(***************************************************************************)
(* evaluate(generate(request)) for requests of MinimumLength characters,   *)
(* of one character less and of two and a half, with boolean flags, on a   *)
(* default instance.                                                       *)
(***************************************************************************)
CappedSizes == {Integer(MinimumLength), Integer(MinimumLength - 1), Num(5)}

CappedRequests ==
    {Obj([size |-> sz, numbers |-> Bool(n), symbols |-> Bool(s),
          uppercases |-> Bool(u), lowercases |-> Bool(l)]) :
        sz \in CappedSizes,
        n \in BOOLEAN, s \in BOOLEAN, u \in BOOLEAN, l \in BOOLEAN}

\* A random source that yields RandDen values over and over.
PeriodicSource(first) ==
    [i \in 1..MinimumLength |-> first[((i - 1) % RandDen) + 1]]

PeriodicSources == {PeriodicSource(first) : first \in [1..RandDen -> Randoms]}

InitCapped ==
    /\ Construct(Undefined)
    /\ \E options \in CappedRequests :
           \E random \in PeriodicSources :
               todo = <<Planned("generate", options, random),
                        Planned("evaluateGenerated", Absent, <<>>)>>

SpecCapped == InitCapped /\ [][NextStrength]_vars

\* The highest level the request allows.
Cap(options) ==
    IF Get(options, "size").h < 2 * MinimumLength THEN 0
    ELSE IF Flag(options, "lowercases") = 0 \/ Flag(options, "uppercases") = 0 THEN 1
    ELSE IF Flag(options, "numbers") = 0 THEN 2
    ELSE IF Flag(options, "symbols") = 0 THEN 3
    ELSE 5

\* C29: for every accepted request and every draw sequence,
\* evaluate(generate(request)) has a level, which is 0 if size < 8 and
\* otherwise at most 1 if lowercases or uppercases is not true, at most 2
\* if numbers is not true and at most 3 if symbols is not true; level 4 or
\* 5 only comes with size >= 8 and all four flags true.
C29_LevelCappedByRequest ==
    /\ Generated /\ Accepted =>
           call.out.kind = "return" /\ call.out.value.t = "string"
    /\ EvaluatedGenerated /\ Accepted =>
           /\ call.out.kind = "return"
           /\ call.out.value.level <= Cap(call.arg)
           /\ Get(call.arg, "size").h < 2 * MinimumLength
                 => call.out.value.level = 0
           /\ call.out.value.level >= 4
                 => /\ Get(call.arg, "size").h >= 2 * MinimumLength
                    /\ AllFourFlags(call.arg)

(***************************************************************************)
(* The alphabets of generate against the character classes of evaluate:    *)
(* the test of each of the four classes on each character of the four      *)
(* alphabets, and evaluate(generate(request)) for the requests of          *)
(* MinimumLength characters with all four flags true.                      *)
(***************************************************************************)
Alphabets ==
    [numbers |-> numbers, symbols |-> symbols,
     uppercases |-> uppercases, lowercases |-> lowercases]

\* regexps[class].test(char) for a character of an alphabet.
TestCalls ==
    {Planned("test", [class |-> k, alphabet |-> a, char |-> c], <<>>) :
        k \in DOMAIN Alphabets,
        a \in DOMAIN Alphabets,
        c \in Range(numbers) \cup Range(symbols)
              \cup Range(uppercases) \cup Range(lowercases)}

CallTest ==
    /\ todo # <<>>
    /\ Head(todo).op = "test"
    /\ LET arg == Head(todo).arg
           t == step(regexps[arg.class], <<arg.char>>, lastIndex)
       IN  /\ call' = Call(call.n + 1, "test", arg, <<>>, Return(Bool(t.matched)))
           /\ lastIndex' = t.lastIndex
    /\ todo' = Tail(todo)
    /\ UNCHANGED <<inst, memo, built>>

InitAlphabets ==
    /\ Construct(Undefined)
    /\ \/ \E c \in TestCalls :
             /\ c.arg.char \in Range(Alphabets[c.arg.alphabet])
             /\ todo = <<c>>
       \/ \E options \in {o \in StrengthRequests : AllFourFlags(o)} :
             \E random \in PeriodicSources :
                 todo = <<Planned("generate", options, random),
                          Planned("evaluateGenerated", Absent, <<>>)>>

NextAlphabets ==
    \/ CallTest
    \/ CallGenerate
    \/ CallEvaluateGenerated

SpecAlphabets == InitAlphabets /\ [][NextAlphabets]_vars

TestedClass == call.op = "test"

\* The password evaluated holds a character of each of the four alphabets.
OfEveryAlphabet(s) ==
    \A a \in DOMAIN Alphabets : HasCharIn(s, Alphabets[a])

\* C30: every character of an alphabet of generate satisfies the test of
\* evaluate for its own class (the underscore of the symbols included) and
\* the test of no other class; a generated password of size >= 8 with a
\* character of each of the four alphabets reaches level 4 at least.
C30_AlphabetsAgreeWithClasses ==
    /\ TestedClass =>
           call.out = Return(Bool(call.arg.class = call.arg.alphabet))
    /\ EvaluatedGenerated
          /\ OfEveryAlphabet(FirstDraws(call.arg, call.random).s) =>
           call.out.kind = "return" /\ call.out.value.level >= 4

\* C30's case: the symbol test on the underscore of the symbols alphabet.
C30_Witness ==
    /\ TestedClass
    /\ call.arg.class = "symbols"
    /\ call.arg.alphabet = "symbols"
    /\ call.arg.char = "_"
    /\ call.out = Return(Bool(TRUE))

====
